---- MODULE Spec2Model ----
(***************************************************************************)
(* Model of backend/app.py: the crawl - chunk - index - search pipeline of *)
(* the Website Search API.                                                 *)
(*                                                                         *)
(* Python strings are modelled as sequences of one-character strings, so   *)
(* that split, join, strip, startswith, slicing and len are computed and   *)
(* not assumed.                                                            *)
(***************************************************************************)
EXTENDS Integers, Sequences, FiniteSets, TLC

VARIABLES
    store,   \* the vector store: collection name -> [exists, objects]
    req,     \* one record per search request (position, locals, response)
    swept,   \* result of the last administrative sweep
    lk,      \* state of one get_website_links call (specification SpecLinks)
    ck,      \* state of one chunk_text call (specification SpecChunk)
    cn,      \* state of two get_collection_name calls (specification SpecName)
    pv       \* state of one result preview (specification SpecPreview)

vars == <<store, req, swept, lk, ck, cn, pv>>

(***************************************************************************)
(* Bounds of the model.                                                    *)
(***************************************************************************)
NumRequests == 2      \* search requests in one behaviour
MaxAnchors == 3       \* anchors on a seed page (SpecLinks)
MaxPagesBound == 3    \* largest max_pages tried (SpecLinks)
MaxTextLen == 5       \* characters of a text handed to chunk_text (SpecChunk)
MaxTokensBound == 3   \* largest max_tokens tried (SpecChunk)
MaxSweeps == 1        \* administrative sweeps in one behaviour
MaxMargin == 5        \* content lengths tried around 300 (SpecPreview)
MaxHostLen == 2       \* characters of a generated host (SpecName)

(***************************************************************************)
(* Strings.                                                                *)
(***************************************************************************)
Whitespace == {" ", "\t", "\n"}

Min(S) == CHOOSE m \in S : \A n \in S : m <= n
Max(S) == CHOOSE m \in S : \A n \in S : n <= m

\* s[:k]
Prefix(s, k) == SubSeq(s, 1, IF k < Len(s) THEN k ELSE Len(s))

\* s.startswith(p)
startswith(s, p) == Len(p) <= Len(s) /\ SubSeq(s, 1, Len(p)) = p

\* p in s
contains(s, p) ==
    \E i \in 1..(Len(s) - Len(p) + 1) : SubSeq(s, i, i + Len(p) - 1) = p

\* s.strip()
strip(s) ==
    LET keep == {i \in 1..Len(s) : s[i] \notin Whitespace}
    IN  IF keep = {} THEN <<>> ELSE SubSeq(s, Min(keep), Max(keep))

\* s.split(): the maximal runs of non-whitespace characters of s[lo..hi], in
\* order.  The range is halved so that the evaluation depth stays logarithmic;
\* a run that spans the cut is glued back together.
RECURSIVE SplitRange(_, _, _)
SplitRange(s, lo, hi) ==
    IF lo > hi THEN <<>>
    ELSE IF lo = hi THEN (IF s[lo] \in Whitespace THEN <<>> ELSE << <<s[lo]>> >>)
    ELSE LET mid == (lo + hi) \div 2
             L == SplitRange(s, lo, mid)
             R == SplitRange(s, mid + 1, hi)
         IN  IF s[mid] \notin Whitespace /\ s[mid + 1] \notin Whitespace
             THEN SubSeq(L, 1, Len(L) - 1) \o << L[Len(L)] \o R[1] >> \o Tail(R)
             ELSE L \o R

split(s) == SplitRange(s, 1, Len(s))

\* ' '.join(words[lo..hi])
RECURSIVE JoinRange(_, _, _)
JoinRange(words, lo, hi) ==
    IF lo > hi THEN <<>>
    ELSE IF lo = hi THEN words[lo]
    ELSE LET mid == (lo + hi) \div 2
         IN  JoinRange(words, lo, mid) \o <<" ">> \o JoinRange(words, mid + 1, hi)

join(words) == JoinRange(words, 1, Len(words))

(***************************************************************************)
(* chunk_text                                                              *)
(***************************************************************************)
\* chunk_text with a slice that runs one word too far: words[i:i + max_tokens + 1]
chunk_text_overlap(text, max_tokens) ==
    LET words == split(text)
        n == Len(words)
        count == (n + max_tokens - 1) \div max_tokens
        slice(k) == SubSeq(words, (k - 1) * max_tokens + 1,
                           IF k * max_tokens + 1 < n THEN k * max_tokens + 1 ELSE n)
        all == [k \in 1..count |-> join(slice(k))]
        nonblank(chunk) == strip(chunk) # <<>>
    IN  SelectSeq(all, nonblank)

\* for i in range(0, len(words), max_tokens): ' '.join(words[i:i + max_tokens]),
\* kept if chunk.strip() is not empty.
chunk_text(text, max_tokens) ==
    LET words == split(text)
        n == Len(words)
        count == (n + max_tokens - 1) \div max_tokens
        slice(k) == SubSeq(words, (k - 1) * max_tokens + 1,
                           IF k * max_tokens < n THEN k * max_tokens ELSE n)
        all == [k \in 1..count |-> join(slice(k))]
        nonblank(chunk) == strip(chunk) # <<>>
    IN  SelectSeq(all, nonblank)

(***************************************************************************)
(* Characters and URLs.                                                    *)
(***************************************************************************)
UpperCase == <<"A", "B", "C", "D", "E", "F", "G", "H", "I", "J", "K", "L", "M",
               "N", "O", "P", "Q", "R", "S", "T", "U", "V", "W", "X", "Y", "Z">>
LowerCase == <<"a", "b", "c", "d", "e", "f", "g", "h", "i", "j", "k", "l", "m",
               "n", "o", "p", "q", "r", "s", "t", "u", "v", "w", "x", "y", "z">>
Digits == <<"0", "1", "2", "3", "4", "5", "6", "7", "8", "9">>

Range(f) == {f[i] : i \in DOMAIN f}

\* the orders in which list(S) may give the elements of a set S
ListsOf(S) ==
    {f \in [1..Cardinality(S) -> S] : \A x \in S : \E i \in DOMAIN f : f[i] = x}

\* s.lower()
lower(s) ==
    [i \in 1..Len(s) |->
        IF s[i] \in Range(UpperCase)
        THEN LowerCase[CHOOSE k \in 1..Len(UpperCase) : UpperCase[k] = s[i]]
        ELSE s[i]]

HttpPrefix == <<"h", "t", "t", "p", ":", "/", "/">>
HttpsPrefix == <<"h", "t", "t", "p", "s", ":", "/", "/">>

\* urlparse(url).scheme: the characters before the first ':'
UrlScheme(url) ==
    LET colons == {i \in 1..Len(url) : url[i] = ":"}
    IN  IF colons = {} THEN <<>> ELSE SubSeq(url, 1, Min(colons) - 1)

\* The network location of a string that starts with '//': the characters
\* after the two slashes, up to the next '/', '?' or '#'.
NetlocAfterSlashes(s) ==
    LET stops == {i \in 3..Len(s) : s[i] \in {"/", "?", "#"}}
    IN  SubSeq(s, 3, IF stops = {} THEN Len(s) ELSE Min(stops) - 1)

\* urlparse(url).netloc
UrlNetloc(url) ==
    LET scheme == UrlScheme(url)
        rest == SubSeq(url, Len(scheme) + 2, Len(url))
    IN  IF scheme # <<>> /\ startswith(rest, <<"/", "/">>)
        THEN NetlocAfterSlashes(rest)
        ELSE <<>>

\* urlparse(url) raises ValueError('Invalid IPv6 URL') when the network
\* location holds an unbalanced bracket.
UrlparseRaises(url) ==
    LET netloc == UrlNetloc(url)
    IN  ("[" \in Range(netloc)) # ("]" \in Range(netloc))

\* urljoin(base_url, href) raises ValueError('Invalid IPv6 URL') when the
\* network location of href holds an unbalanced bracket.
UrljoinRaises(href) ==
    /\ startswith(href, <<"/", "/">>)
    /\ LET netloc == NetlocAfterSlashes(href)
       IN  ("[" \in Range(netloc)) # ("]" \in Range(netloc))

\* urljoin(base_url, href) for an href that starts with '/', a base with an
\* http(s) scheme, and a path without '.' or '..' segments: a protocol-relative
\* href keeps its own network location, a rooted path keeps the base's.
urljoin(base_url, href) ==
    IF startswith(href, <<"/", "/">>) /\ NetlocAfterSlashes(href) # <<>>
    THEN UrlScheme(base_url) \o <<":">> \o href
    ELSE UrlScheme(base_url) \o <<":", "/", "/">> \o UrlNetloc(base_url) \o href

(***************************************************************************)
(* Pages.  An HTML document is the sequence of its elements; the empty     *)
(* sequence is the empty content "" that fetch_url_content returns for a   *)
(* page it could not get.                                                  *)
(***************************************************************************)
Anchor(href) == [tag |-> "a", has_href |-> TRUE, href |-> href, text |-> <<>>]
Element(tag, text) == [tag |-> tag, has_href |-> FALSE, href |-> <<>>, text |-> text]

EmptyContent == <<>>

FetchOutcomes == {"ok", "status", "error", "timeout"}

\* fetch_url_content: the body on status 200, "" on another status, on a
\* transport error and on a timeout; it never raises.
fetch_url_content(url, outcome, body) ==
    <<url, IF outcome = "ok" THEN body ELSE EmptyContent>>

(***************************************************************************)
(* The web the requests crawl, and the inputs of the search operation.     *)
(***************************************************************************)
SiteAInput == <<"a", ".", "i", "o">>                                \* a.io
SiteBInput == <<"h", "t", "t", "p", ":", "/", "/", "b", ".", "i", "o">>  \* http://b.io

BadHostInput == <<"[">>                                             \* [
WebsiteInputs == {<<>>, SiteAInput, SiteBInput, BadHostInput}
Queries == {<<>>, <<"q">>}

SeedA == HttpsPrefix \o SiteAInput
SeedB == SiteBInput
PageP == SeedA \o <<"/", "p">>

\* one word of 50 characters: a chunk that is not indexed
Text50 == [i \in 1..50 |-> "a"]
\* 26 one-letter words, 51 characters: a chunk that is indexed
Text51 == [i \in 1..51 |-> IF i % 2 = 1 THEN "b" ELSE " "]
\* The body each URL serves with status 200.
Web(url) ==
    CASE url = SeedA -> << Element("p", Text50),
                           Anchor(<<"/", "p">>),
                           Anchor(SeedB \o <<"/">>) >>
      [] url = PageP -> << Element("script", <<"v", "a", "r">>),
                           Element("p", Text51) >>
      [] url = SeedB -> << Element("title", <<" ", "B", " ">>),
                           Element("nav", <<"m", "e", "n", "u">>),
                           Element("p", Text51) >>
      [] OTHER -> EmptyContent

(***************************************************************************)
(* get_website_links                                                       *)
(***************************************************************************)
SkipList ==
    { <<"#">>,
      <<"j", "a", "v", "a", "s", "c", "r", "i", "p", "t", ":">>,
      <<"m", "a", "i", "l", "t", "o", ":">>,
      <<".", "p", "d", "f">>, <<".", "j", "p", "g">>,
      <<".", "p", "n", "g">>, <<".", "g", "i", "f">> }

\* soup.find_all('a', href=True)
FindAnchors(content) ==
    LET isAnchor(e) == e.tag = "a" /\ e.has_href
    IN  SelectSeq(content, isAnchor)

\* The loop over the anchors, from anchor i on, with the links gathered so
\* far.  The result is [raised, links]: raised when urljoin raised.
RECURSIVE LinkLoop(_, _, _, _, _)
LinkLoop(base_url, anchors, i, links, max_pages) ==
    IF i > Len(anchors) THEN [raised |-> FALSE, links |-> links]
    ELSE LET href == anchors[i].href
         IN  IF startswith(href, <<"/">>) /\ UrljoinRaises(href)
             THEN [raised |-> TRUE, links |-> links]
             ELSE IF ~startswith(href, <<"/">>) /\ ~startswith(href, base_url)
             THEN LinkLoop(base_url, anchors, i + 1, links, max_pages)   \* continue
             ELSE LET full_url == IF startswith(href, <<"/">>)
                                  THEN urljoin(base_url, href)
                                  ELSE href
                      added == IF \E skip \in SkipList : contains(lower(full_url), skip)
                               THEN links
                               ELSE links \cup {full_url}
                  IN  IF Cardinality(added) >= max_pages
                      THEN [raised |-> FALSE, links |-> added]           \* break
                      ELSE LinkLoop(base_url, anchors, i + 1, added, max_pages)

\* the links gathered before urljoin raised are returned
get_website_links_partial(base_url, content, max_pages, failed) ==
    IF failed THEN {base_url}
    ELSE IF content = EmptyContent THEN {base_url}
    ELSE LinkLoop(base_url, FindAnchors(content), 1, {base_url}, max_pages).links

\* The set that get_website_links returns as a list: content is what the
\* fetch of the seed returned, failed tells that opening the session or
\* parsing the page raised.
get_website_links(base_url, content, max_pages, failed) ==
    IF failed THEN {base_url}
    ELSE IF content = EmptyContent THEN {base_url}
    ELSE LET out == LinkLoop(base_url, FindAnchors(content), 1, {base_url}, max_pages)
         IN  IF out.raised THEN {base_url} ELSE out.links

(***************************************************************************)
(* clean_html and the text extraction of index_website_content             *)
(***************************************************************************)
RemovedTags == {"script", "style", "meta", "link", "nav", "header", "footer"}

\* clean_html: the document without the elements whose tag is removed
clean_html(html) ==
    LET kept(e) == e.tag \notin RemovedTags
    IN  SelectSeq(html, kept)

\* soup.get_text(separator=' ', strip=True): the stripped, non-empty texts of
\* the elements, joined by single spaces
get_text(soup) ==
    LET stripped == [i \in 1..Len(soup) |-> strip(soup[i].text)]
        nonempty(t) == t # <<>>
    IN  join(SelectSeq(stripped, nonempty))

\* title_tag.get_text().strip() if title_tag else ""
page_title(soup) ==
    LET titles == {i \in 1..Len(soup) : soup[i].tag = "title"}
    IN  IF titles = {} THEN <<>> ELSE strip(soup[Min(titles)].text)

DefaultMaxTokens == 500   \* max_tokens of chunk_text as index_website_content calls it
MinChunkChars == 50       \* a chunk is indexed if len(chunk.strip()) > 50

\* the threshold test written with >= instead of >
Retained_atleast(chunk) == Len(strip(chunk)) >= MinChunkChars

\* if len(chunk.strip()) > 50
Retained(chunk) == Len(strip(chunk)) > MinChunkChars

\* The objects index_website_content submits for one fetched page, in order:
\* none for an empty page, one per retained chunk otherwise.  The html_snippet
\* property (the first 1000 characters of the serialised markup) is left out.
PageObjects(url, html_content) ==
    IF html_content = EmptyContent THEN <<>>
    ELSE LET soup == clean_html(html_content)
             chunks == chunk_text(get_text(soup), DefaultMaxTokens)
             kept == SelectSeq(chunks, Retained)
         IN  [i \in 1..Len(kept) |->
                 [content |-> kept[i], url |-> url, page_title |-> page_title(soup)]]

\* the pages of the web
Pages == {SeedA, PageP, SeedB}

\* PageObjects of each page as the web serves it, computed once
PageTable == [url \in Pages |-> PageObjects(url, Web(url))]

\* PageObjects(url, html_content), looked up in PageTable where it applies
ObjectsOfPage(url, html_content) ==
    IF url \in Pages /\ html_content = Web(url)
    THEN PageTable[url]
    ELSE PageObjects(url, html_content)

\* the loop over the results with "break" instead of "continue" at an empty page
RECURSIVE ObjectsFrom_stop(_, _, _)
ObjectsFrom_stop(urls, results, i) ==
    IF i > Len(urls) \/ results[urls[i]] = EmptyContent THEN <<>>
    ELSE ObjectsOfPage(urls[i], results[urls[i]]) \o ObjectsFrom_stop(urls, results, i + 1)

\* for url, html_content in results: the objects of all pages, in the order
\* of the url list
RECURSIVE ObjectsFrom(_, _, _)
ObjectsFrom(urls, results, i) ==
    IF i > Len(urls) THEN <<>>
    ELSE ObjectsOfPage(urls[i], results[urls[i]]) \o ObjectsFrom(urls, results, i + 1)

AllObjects(urls, results) == ObjectsFrom(urls, results, 1)

(***************************************************************************)
(* get_collection_name                                                     *)
(***************************************************************************)
MaxNameLen == 50

Letters == Range(UpperCase) \cup Range(LowerCase)

SitePrefix == <<"W", "e", "b", "s", "i", "t", "e", "_">>

\* the name without the cut at 50 characters
get_collection_name_uncut(base_url) ==
    LET netloc == UrlNetloc(base_url)
        replaced == [i \in 1..Len(netloc) |->
                        IF netloc[i] \in {".", "-"} THEN "_" ELSE netloc[i]]
        wordchar(c) == c \in Letters \cup Range(Digits) \cup {"_"}
        cleaned == SelectSeq(replaced, wordchar)
        domain == IF cleaned = <<>> \/ cleaned[1] \notin Letters
                  THEN <<"w", "e", "b", "s", "i", "t", "e", "_">> \o cleaned
                  ELSE cleaned
    IN  SitePrefix \o domain

\* the name with the digits of the host dropped as well
get_collection_name_nodigits(base_url) ==
    LET netloc == UrlNetloc(base_url)
        replaced == [i \in 1..Len(netloc) |->
                        IF netloc[i] \in {".", "-"} THEN "_" ELSE netloc[i]]
        wordchar(c) == c \in Letters \cup {"_"}
        cleaned == SelectSeq(replaced, wordchar)
        domain == IF cleaned = <<>> \/ cleaned[1] \notin Letters
                  THEN <<"w", "e", "b", "s", "i", "t", "e", "_">> \o cleaned
                  ELSE cleaned
    IN  Prefix(SitePrefix \o domain, MaxNameLen)

\* the name with the prefix in lower case
get_collection_name_lowercase(base_url) ==
    LET netloc == UrlNetloc(base_url)
        replaced == [i \in 1..Len(netloc) |->
                        IF netloc[i] \in {".", "-"} THEN "_" ELSE netloc[i]]
        wordchar(c) == c \in Letters \cup Range(Digits) \cup {"_"}
        cleaned == SelectSeq(replaced, wordchar)
        domain == IF cleaned = <<>> \/ cleaned[1] \notin Letters
                  THEN <<"w", "e", "b", "s", "i", "t", "e", "_">> \o cleaned
                  ELSE cleaned
    IN  Prefix(lower(SitePrefix) \o domain, MaxNameLen)

\* The name returned for a base_url that urlparse accepts.
get_collection_name(base_url) ==
    LET netloc == UrlNetloc(base_url)
        replaced == [i \in 1..Len(netloc) |->
                        IF netloc[i] \in {".", "-"} THEN "_" ELSE netloc[i]]
        wordchar(c) == c \in Letters \cup Range(Digits) \cup {"_"}
        cleaned == SelectSeq(replaced, wordchar)
        domain == IF cleaned = <<>> \/ cleaned[1] \notin Letters
                  THEN <<"w", "e", "b", "s", "i", "t", "e", "_">> \o cleaned
                  ELSE cleaned
    IN  Prefix(SitePrefix \o domain, MaxNameLen)

(***************************************************************************)
(* The vector store.                                                       *)
(***************************************************************************)
OtherCollection == <<"N", "o", "t", "e", "s">>

\* if not data.website.startswith(('http://', 'https://'))
NormalizeWebsite(website) ==
    IF startswith(website, HttpPrefix) \/ startswith(website, HttpsPrefix)
    THEN website
    ELSE HttpsPrefix \o website

CollectionNames ==
    {get_collection_name(NormalizeWebsite(w)) :
        w \in {i \in WebsiteInputs : i # <<>> /\ ~UrlparseRaises(NormalizeWebsite(i))}}
        \cup {OtherCollection}

\* the order in which the store lists its collections
CollectionOrder ==
    CHOOSE order \in ListsOf(CollectionNames) :
        order[1] = get_collection_name(SeedA) /\ order[2] = OtherCollection

NoCollection == [exists |-> FALSE, objects |-> {}]
EmptyCollection == [exists |-> TRUE, objects |-> {}]

AlreadyExists == <<"a", "l", "r", "e", "a", "d", "y", " ", "e", "x", "i", "s", "t", "s">>
ExistsMessage == <<"c", "l", "a", "s", "s", " ", "n", "a", "m", "e", " ">> \o AlreadyExists
OtherMessage == <<"c", "o", "n", "n", "e", "c", "t", "i", "o", "n", " ",
                  "r", "e", "f", "u", "s", "e", "d">>
MissingMessage == <<"c", "o", "l", "l", "e", "c", "t", "i", "o", "n", " ",
                    "n", "o", "t", " ", "f", "o", "u", "n", "d">>
UrlparseMessage == <<"I", "n", "v", "a", "l", "i", "d", " ", "I", "P", "v", "6", " ",
                     "U", "R", "L">>
EncodeMessage == <<"e", "n", "c", "o", "d", "e", " ", "f", "a", "i", "l", "e", "d">>
ValidationDetail == <<"W", "e", "b", "s", "i", "t", "e", " ", "U", "R", "L", " ",
                      "a", "n", "d", " ", "q", "u", "e", "r", "y", " ", "a", "r", "e", " ",
                      "r", "e", "q", "u", "i", "r", "e", "d">>

StoreOutcomes == {"ok", "error"}

\* a delete that removes every collection of a site
StoreDelete_sites(st, name, outcome) ==
    IF outcome = "ok"
    THEN [store |-> [n \in DOMAIN st |->
                        IF startswith(n, SitePrefix) THEN NoCollection ELSE st[n]],
          raised |-> FALSE]
    ELSE [store |-> st, raised |-> TRUE]

\* a delete that returns without deleting
StoreDelete_keeps(st, name, outcome) ==
    [store |-> st, raised |-> outcome # "ok"]

\* weaviate_client.collections.delete(name): the collection is gone, or the
\* call raises and the store is as before.
StoreDelete(st, name, outcome) ==
    IF outcome = "ok"
    THEN [store |-> [st EXCEPT ![name] = NoCollection], raised |-> FALSE]
    ELSE [store |-> st, raised |-> TRUE]

\* weaviate_client.collections.create(name, ...): a new empty collection, an
\* error saying that the collection already exists, or another error.
StoreCreate(st, name, outcome) ==
    IF outcome = "error"
    THEN [store |-> st, raised |-> TRUE, message |-> OtherMessage]
    ELSE IF st[name].exists
    THEN [store |-> st, raised |-> TRUE, message |-> ExistsMessage]
    ELSE [store |-> [st EXCEPT ![name] = EmptyCollection],
          raised |-> FALSE, message |-> <<>>]

\* every creation failure re-raised
CreateIsFatal_always(created) == created.raised

\* every creation failure swallowed
CreateIsFatal_never(created) == FALSE

\* if "already exists" in str(create_error): carry on, else: raise create_error
CreateIsFatal(created) ==
    created.raised /\ ~contains(created.message, AlreadyExists)

\* a batch that is never flushed: the objects do not reach the store
StoreInsert_unflushed(st, name, objects, auto_schema) == st

\* batch.add_object for every object, flushed when the batch context is left.
\* Objects sent to a collection that is gone are rejected without an
\* exception, unless the store creates the collection on the fly.
StoreInsert(st, name, objects, auto_schema) ==
    IF st[name].exists
    THEN [st EXCEPT ![name].objects = @ \cup objects]
    ELSE IF auto_schema /\ objects # {}
    THEN [st EXCEPT ![name] = [exists |-> TRUE, objects |-> objects]]
    ELSE st

(***************************************************************************)
(* search_content                                                          *)
(***************************************************************************)
TopK == 10
PreviewLen == 300

\* the marker is added from 300 characters on
Preview_atleast(content) ==
    IF Len(content) >= PreviewLen
    THEN Prefix(content, PreviewLen) \o <<".", ".", ".">>
    ELSE content

\* obj.properties['content'][:300] + "..." if len(...) > 300 else the content
Preview(content) ==
    IF Len(content) > PreviewLen
    THEN Prefix(content, PreviewLen) \o <<".", ".", ".">>
    ELSE content

\* one SearchResult per hit (the score, 1 - distance, is not modelled)
SearchResult(obj) == [id |-> obj.id, url |-> obj.url, content |-> Preview(obj.content)]

\* the answers near_vector may give: any limit-sized part of the collection
NearVector(objects, limit) ==
    {hits \in SUBSET objects :
        Cardinality(hits) = IF Cardinality(objects) < limit
                            THEN Cardinality(objects) ELSE limit}

(***************************************************************************)
(* search_website: one request                                             *)
(***************************************************************************)
Requests == 1..NumRequests

MaxPages == 1500   \* get_website_links(data.website, max_pages=1500)

NoResponse == [status |-> 0, detail |-> <<>>, results |-> {}, total_chunks |-> 0]

\* what collections.create gave a request that has not called it
NotCreated == [raised |-> FALSE, message |-> <<>>]

\* The locals of a request; before (the objects of the collection when the
\* rebuild began), failed (the urls whose fetch gave no content), fetches (the
\* fetches per url), submitted (the objects handed to the batch), steps (the
\* steps taken, in order) and responses record what the request did; evicted
\* tells that its collection was deleted by another request or by the sweep
\* while it was suspended in its fetches.
IdleRequest ==
    [pc |-> "idle", website |-> <<>>, query |-> <<>>, collection_name |-> <<>>,
     urls |-> <<>>, delete_raised |-> FALSE, created |-> NotCreated,
     pending |-> {}, results |-> <<>>, failed |-> {}, fetches |-> <<>>,
     before |-> {}, submitted |-> <<>>, total_chunks |-> 0, steps |-> <<>>,
     evicted |-> FALSE, responses |-> 0, response |-> NoResponse]

\* Both exception classes of the handler derive from Exception, so the
\* handler's "except Exception" clause catches either.
HTTPException(status_code, detail) ==
    [type |-> "HTTPException", status_code |-> status_code, detail |-> detail]
Exception(detail) == [type |-> "Exception", status_code |-> 0, detail |-> detail]

DerivesFromException(type) == type \in {"Exception", "HTTPException"}

\* except Exception as e: raise HTTPException(status_code=500, detail=str(e));
\* the response is the one of the exception that leaves the handler (str(e) is
\* modelled by the detail of e).
search_website_except(exc) ==
    LET out == IF DerivesFromException(exc.type)
               THEN HTTPException(500, exc.detail)
               ELSE exc
    IN  [status |-> out.status_code, detail |-> out.detail,
         results |-> {}, total_chunks |-> 0]

\* if not data.website or not data.query
InvalidInput(website, query) == website = <<>> \/ query = <<>>

\* The request arrives: validation, normalisation, collection name (urlparse
\* may raise there); the handler is then suspended in the fetch of the seed
\* page.
Start(r) ==
    /\ req[r].pc = "idle"
    /\ \E website \in WebsiteInputs, query \in Queries :
          IF InvalidInput(website, query)
          THEN req' = [req EXCEPT ![r] =
                  [@ EXCEPT !.pc = "done", !.website = website, !.query = query,
                            !.responses = @ + 1,
                            !.response = search_website_except(
                                            HTTPException(400, ValidationDetail))]]
          ELSE IF UrlparseRaises(NormalizeWebsite(website))
          THEN req' = [req EXCEPT ![r] =
                  [@ EXCEPT !.pc = "done",
                            !.website = NormalizeWebsite(website), !.query = query,
                            !.responses = @ + 1,
                            !.response = search_website_except(
                                            Exception(UrlparseMessage))]]
          ELSE req' = [req EXCEPT ![r] =
                  [@ EXCEPT !.pc = "discover",
                            !.website = NormalizeWebsite(website), !.query = query,
                            !.collection_name =
                                get_collection_name(NormalizeWebsite(website))]]
    /\ UNCHANGED <<store, swept, lk, ck, cn, pv>>

\* The fetch of the seed page ends and get_website_links returns list(links).
Discover(r) ==
    /\ req[r].pc = "discover"
    /\ \E outcome \in FetchOutcomes, failed \in BOOLEAN :
          LET seed == req[r].website
              content == fetch_url_content(seed, outcome, Web(seed))[2]
              links == get_website_links(seed, content, MaxPages, failed)
          IN  \E urls \in ListsOf(links) :
                 req' = [req EXCEPT ![r] =
                    [@ EXCEPT !.pc = "rebuild", !.urls = urls,
                              !.steps = Append(@, "discover")]]
    /\ UNCHANGED <<store, swept, lk, ck, cn, pv>>

\* The requests rq after collections have been deleted by another actor
\* (a request, or 0 for the sweep): a request suspended in its fetches whose
\* collection is among them is marked evicted.
Evict(rq, actor, collections) ==
    [x \in Requests |->
        IF x # actor /\ rq[x].pc = "fetch" /\ rq[x].collection_name \in collections
        THEN [rq[x] EXCEPT !.evicted = TRUE]
        ELSE rq[x]]

\* The pages still awaited once asyncio.gather has started one fetch per url.
StartFetches(urls) == Range(urls)

\* index_website_content up to "await asyncio.gather": the swallowed delete,
\* the create, and the start of one fetch per url.
Rebuild(r) ==
    /\ req[r].pc = "rebuild"
    /\ \E del \in StoreOutcomes, cr \in StoreOutcomes :
          LET name == req[r].collection_name
              deleted == StoreDelete(store, name, del)
              created == StoreCreate(deleted.store, name, cr)
              gone == IF store[name].exists /\ ~deleted.raised THEN {name} ELSE {}
          IN  /\ store' = created.store
              /\ IF CreateIsFatal(created)
                 THEN req' = Evict([req EXCEPT ![r] =
                         [@ EXCEPT !.pc = "done",
                                   !.steps = @ \o <<"delete", "create", "rebuild_raise">>,
                                   !.before = store[name].objects,
                                   !.delete_raised = deleted.raised,
                                   !.created = [raised |-> created.raised,
                                                message |-> created.message],
                                   !.responses = @ + 1,
                                   !.response = search_website_except(
                                                   Exception(created.message))]],
                         r, gone)
                 ELSE req' = Evict([req EXCEPT ![r] =
                         [@ EXCEPT !.pc = "fetch",
                                   !.steps = @ \o <<"delete", "create", "gather">>,
                                   !.before = store[name].objects,
                                   !.delete_raised = deleted.raised,
                                   !.created = [raised |-> created.raised,
                                                message |-> created.message],
                                   !.pending = StartFetches(req[r].urls)]],
                         r, gone)
    /\ UNCHANGED <<swept, lk, ck, cn, pv>>

\* a fetch that gave no content is awaited again
AfterFetch_retry(pending, url, outcome) ==
    IF outcome = "ok" THEN pending \ {url} ELSE pending

\* The pages still awaited after the fetch of url has ended with outcome:
\* a fetch is not tried again.
AfterFetch(pending, url, outcome) == pending \ {url}

\* One of the gathered fetches ends.
FetchDone(r, url) ==
    /\ req[r].pc = "fetch"
    /\ url \in req[r].pending
    /\ \E outcome \in FetchOutcomes :
          req' = [req EXCEPT ![r] =
             [@ EXCEPT !.pending = AfterFetch(@, url, outcome),
                       !.results = (url :> fetch_url_content(url, outcome, Web(url))[2]) @@ @,
                       !.failed = IF outcome = "ok" THEN @ \ {url} ELSE @ \cup {url},
                       !.fetches = (url :> (IF url \in DOMAIN @ THEN @[url] + 1 ELSE 1)) @@ @]]
    /\ UNCHANGED <<store, swept, lk, ck, cn, pv>>

\* an incremental update: objects whose url and content the collection already
\* holds are not submitted again
ObjectsToSubmit_new(objects, existing) ==
    LET fresh(obj) == \A old \in existing :
                         old.url # obj.url \/ old.content # obj.content
    IN  SelectSeq(objects, fresh)

\* The objects index_website_content submits, given the objects of the
\* fetched pages and the objects the collection already holds.
ObjectsToSubmit(objects, existing) == objects

\* The store's object for the k-th object request r submits.
Stored(r, k, obj) ==
    [id |-> <<r, k>>, content |-> obj.content, url |-> obj.url,
     page_title |-> obj.page_title]

\* The order of the remaining steps of a request whose fetches have ended:
\* the batch, the return of total_chunks, search_content.
PipelineTail == <<"populate", "rebuild_return", "query">>

\* All fetches have ended: the batch is filled and flushed,
\* index_website_content returns total_chunks, search_content runs and the
\* response is sent.  fail_at < the number of objects: the embedding of that
\* object raises after fail_at objects have been submitted.
PopulateAndQuery(r) ==
    /\ req[r].pc = "fetch"
    /\ req[r].pending = {}
    /\ \E objects \in {ObjectsToSubmit(AllObjects(req[r].urls, req[r].results),
                                       store[req[r].collection_name].objects)} :
       \E fail_at \in 0..Len(objects), auto_schema \in BOOLEAN, encode_fails \in BOOLEAN :
       \E submitted \in {SubSeq(objects, 1, fail_at)} :
       \E populated \in {StoreInsert(store, req[r].collection_name,
                            {Stored(r, k, submitted[k]) : k \in 1..Len(submitted)},
                            auto_schema)} :
          LET name == req[r].collection_name
              total_chunks == Len(submitted)
          IN  /\ store' = populated
              /\ IF fail_at < Len(objects)
                 THEN req' = [req EXCEPT ![r] =
                         [@ EXCEPT !.pc = "done", !.submitted = submitted, !.evicted = FALSE,
                                   !.steps = @ \o SubSeq(PipelineTail, 1, 1)
                                               \o <<"rebuild_raise">>,
                                   !.responses = @ + 1,
                                   !.response = search_website_except(
                                                   Exception(EncodeMessage))]]
                 ELSE IF encode_fails \/ ~populated[name].exists
                 THEN req' = [req EXCEPT ![r] =
                         [@ EXCEPT !.pc = "done", !.submitted = submitted, !.evicted = FALSE,
                                   !.total_chunks = total_chunks,
                                   !.steps = @ \o PipelineTail,
                                   !.responses = @ + 1,
                                   !.response = search_website_except(
                                       Exception(IF encode_fails THEN EncodeMessage
                                                 ELSE MissingMessage))]]
                 ELSE \E hits \in NearVector(populated[name].objects, TopK) :
                        req' = [req EXCEPT ![r] =
                         [@ EXCEPT !.pc = "done", !.submitted = submitted, !.evicted = FALSE,
                                   !.total_chunks = total_chunks,
                                   !.steps = @ \o PipelineTail,
                                   !.responses = @ + 1,
                                   !.response =
                                      [status |-> 200, detail |-> <<>>,
                                       results |-> {SearchResult(h) : h \in hits},
                                       total_chunks |-> total_chunks]]]
    /\ UNCHANGED <<swept, lk, ck, cn, pv>>

(***************************************************************************)
(* clear_all_collections: the administrative sweep                         *)
(***************************************************************************)
\* the state of swept before the first sweep; afterwards status, listed (the
\* names the loop tried to delete, in order), outcomes (of each attempt) and
\* deleted_count are those of the last sweep
NoSweep == [calls |-> 0, status |-> 0, detail |-> <<>>, listed |-> <<>>,
            outcomes |-> <<>>, deleted_count |-> 0]

\* weaviate_client.collections.list_all(): the existing collections, here
\* in the order of CollectionOrder
ListAll(st) ==
    LET exists(name) == st[name].exists
    IN  SelectSeq(CollectionOrder, exists)

\* a loop that ends at the first deletion that fails
RECURSIVE SweepLoop_stop(_, _, _, _, _)
SweepLoop_stop(st, collections, outcomes, i, out) ==
    IF i > Len(collections) THEN [out EXCEPT !.store = st]
    ELSE IF ~startswith(collections[i], SitePrefix)
    THEN SweepLoop_stop(st, collections, outcomes, i + 1, out)
    ELSE LET deleted == StoreDelete(st, collections[i], outcomes[i])
             tried == [out EXCEPT !.listed = Append(@, collections[i]),
                                  !.outcomes = Append(@, outcomes[i])]
         IN  IF deleted.raised
             THEN [tried EXCEPT !.store = st]
             ELSE SweepLoop_stop(deleted.store, collections, outcomes, i + 1,
                                 [tried EXCEPT !.deleted_count = @ + 1])

\* The loop over the listed collections from the i-th on: a collection whose
\* name starts with "Website_" is deleted and counted, or its deletion raises
\* and the loop goes on.  outcomes[i] is what the store does with the i-th.
RECURSIVE SweepLoop(_, _, _, _, _)
SweepLoop(st, collections, outcomes, i, out) ==
    IF i > Len(collections) THEN [out EXCEPT !.store = st]
    ELSE IF ~startswith(collections[i], SitePrefix)
    THEN SweepLoop(st, collections, outcomes, i + 1, out)
    ELSE LET deleted == StoreDelete(st, collections[i], outcomes[i])
             tried == [out EXCEPT !.listed = Append(@, collections[i]),
                                  !.outcomes = Append(@, outcomes[i])]
         IN  SweepLoop(deleted.store, collections, outcomes, i + 1,
                       IF deleted.raised THEN tried
                       ELSE [tried EXCEPT !.deleted_count = @ + 1])

\* One call of clear_all_collections; it holds no await, so it runs between
\* two steps of the search requests.
Sweep ==
    /\ swept.calls < MaxSweeps
    /\ \E list_outcome \in StoreOutcomes :
          IF list_outcome = "error"
          THEN /\ swept' = [NoSweep EXCEPT !.calls = swept.calls + 1, !.status = 500,
                                           !.detail = OtherMessage]
               /\ UNCHANGED <<store, req>>
          ELSE \E collections \in {ListAll(store)} :
               \E outcomes \in [1..Len(collections) -> StoreOutcomes] :
               \E out \in {SweepLoop(store, collections, outcomes, 1,
                                     [store |-> store, listed |-> <<>>,
                                      outcomes |-> <<>>, deleted_count |-> 0])} :
                  /\ store' = out.store
                  /\ swept' = [calls |-> swept.calls + 1, status |-> 200,
                               detail |-> <<>>, listed |-> out.listed,
                               outcomes |-> out.outcomes,
                               deleted_count |-> out.deleted_count]
                  /\ req' = Evict(req, 0, {out.listed[i] : i \in
                                {k \in DOMAIN out.listed : out.outcomes[k] = "ok"}})
    /\ UNCHANGED <<lk, ck, cn, pv>>

(***************************************************************************)
(* Specification of the service.                                           *)
(***************************************************************************)
IdleLinks == [pc |-> "off", base_url |-> <<>>, content |-> <<>>, max_pages |-> 0,
              failed |-> FALSE, result |-> {}]
IdleChunk == [pc |-> "off", text |-> <<>>, max_tokens |-> 0, chunks |-> <<>>]
IdleName == [pc |-> "off", urls |-> <<>>, raised |-> <<>>, names |-> <<>>]
IdlePreview == [pc |-> "off", obj |-> <<>>, result |-> <<>>]

\* The store outlives the service: the collection of site a.io is left from
\* an earlier run with one object, the collection of b.io does not exist, and
\* one collection belongs to another application.
InitStore ==
    [name \in CollectionNames |->
        IF name = OtherCollection
        THEN [exists |-> TRUE,
              objects |-> {[id |-> <<0, 1>>, content |-> <<"n">>, url |-> <<"u">>,
                            page_title |-> <<>>]}]
        ELSE IF name = get_collection_name(SeedA)
        THEN [exists |-> TRUE,
              objects |-> {[id |-> <<0, 2>>, content |-> Text51, url |-> PageP,
                            page_title |-> <<>>]}]
        ELSE NoCollection]

Init ==
    /\ store = InitStore
    /\ req = [r \in Requests |-> IdleRequest]
    /\ swept = NoSweep
    /\ lk = IdleLinks
    /\ ck = IdleChunk
    /\ cn = IdleName
    /\ pv = IdlePreview

Next ==
    \/ \E r \in Requests : Start(r)
    \/ \E r \in Requests : Discover(r)
    \/ \E r \in Requests : Rebuild(r)
    \/ \E r \in Requests : \E url \in req[r].pending : FetchDone(r, url)
    \/ \E r \in Requests : PopulateAndQuery(r)
    \/ Sweep

Spec == Init /\ [][Next]_vars

\* A request that has been started goes on: the event loop resumes the
\* handler when the seed fetch, each gathered fetch (which has a timeout) and
\* each call of the store or of the embedding model has returned or raised.
\* Nothing makes a request arrive or a sweep be called.
Fairness ==
    \A r \in Requests :
        /\ WF_vars(Discover(r))
        /\ WF_vars(Rebuild(r))
        /\ WF_vars(\E url \in req[r].pending : FetchDone(r, url))
        /\ WF_vars(PopulateAndQuery(r))

SpecLive == Init /\ [][Next]_vars /\ Fairness

(***************************************************************************)
(* Specification of one get_website_links call on bounded inputs.          *)
(***************************************************************************)
Hrefs ==
    { <<"/", "x">>,                                   \* rooted paths
      <<"/", "y">>,
      SeedA \o <<"/", "z">>,                          \* absolute, same origin
      <<"h", "t", "t", "p", "s", ":", "/", "/", "b", ".", "i", "o", "/">>,  \* other host
      SeedA \o <<"x", "/">>,                          \* host a.iox
      <<"/", "/", "b", ".", "i", "o", "/", "x">>,     \* protocol-relative
      <<"/", "x", "#", "t">>,                         \* fragment
      <<"/", "d", ".", "P", "D", "F">>,               \* document
      <<"x">>,                                        \* relative path
      <<"/", "/", "[", "b">> }                        \* urljoin raises

\* A seed page: one paragraph and the anchors with these hrefs.
SeedPage(hrefs) ==
    << Element("p", <<"t">>) >> \o [i \in 1..Len(hrefs) |-> Anchor(hrefs[i])]

SeqsUpTo(S, n) == UNION {[1..k -> S] : k \in 0..n}

InitLinks ==
    /\ \E hrefs \in SeqsUpTo(Hrefs, MaxAnchors), max_pages \in 1..MaxPagesBound :
          lk = [pc |-> "call", base_url |-> SeedA, content |-> SeedPage(hrefs),
                max_pages |-> max_pages, failed |-> FALSE, result |-> {}]
    /\ store = InitStore
    /\ req = [r \in Requests |-> IdleRequest]
    /\ swept = NoSweep
    /\ ck = IdleChunk
    /\ cn = IdleName
    /\ pv = IdlePreview

\* get_website_links(base_url, max_pages) runs: the seed is fetched with some
\* outcome, and the links (or the fallback) are returned.
LinksCall ==
    /\ lk.pc = "call"
    /\ \E outcome \in FetchOutcomes, failed \in BOOLEAN :
       \E content \in {fetch_url_content(lk.base_url, outcome, lk.content)[2]} :
          lk' = [lk EXCEPT !.pc = "done", !.content = content, !.failed = failed,
                           !.result = get_website_links(lk.base_url, content,
                                                        lk.max_pages, failed)]
    /\ UNCHANGED <<store, req, swept, ck, cn, pv>>

NextLinks == LinksCall

SpecLinks == InitLinks /\ [][NextLinks]_vars

(***************************************************************************)
(* Specification of one chunk_text call on bounded inputs.                 *)
(***************************************************************************)
TextAlphabet == {" ", "\n", "a", "b"}

\* 1200 one-letter words separated by single spaces
Text1200 == [i \in 1..2399 |-> IF i % 2 = 1 THEN "w" ELSE " "]

ChunkInputs ==
    (SeqsUpTo(TextAlphabet, MaxTextLen) \X (1..MaxTokensBound))
        \cup {<<Text1200, DefaultMaxTokens>>}

InitChunk ==
    /\ \E input \in ChunkInputs :
          ck = [pc |-> "call", text |-> input[1], max_tokens |-> input[2],
                chunks |-> <<>>]
    /\ store = InitStore
    /\ req = [r \in Requests |-> IdleRequest]
    /\ swept = NoSweep
    /\ lk = IdleLinks
    /\ cn = IdleName
    /\ pv = IdlePreview

ChunkCall ==
    /\ ck.pc = "call"
    /\ ck' = [ck EXCEPT !.pc = "done", !.chunks = chunk_text(ck.text, ck.max_tokens)]
    /\ UNCHANGED <<store, req, swept, lk, cn, pv>>

NextChunk == ChunkCall

SpecChunk == InitChunk /\ [][NextChunk]_vars

(***************************************************************************)
(* Specification of two get_collection_name calls on bounded inputs.       *)
(***************************************************************************)
HostAlphabet == {"a", "1", ".", "-"}

\* a host label of n letters
LongHost(n) == [i \in 1..n |-> "b"]

NameHosts ==
    SeqsUpTo(HostAlphabet, MaxHostLen)
        \cup { <<"a", "_">>, <<"A", "1">>, <<"a", ":", "1">>, <<"[", "b">>,
               <<"u", "@", "a">>,
               <<"w", "e", "b", "s", "i", "t", "e", ".", "1", "a">>,
               LongHost(41), LongHost(42), LongHost(43), LongHost(51),
               LongHost(42) \o <<"x">>, LongHost(42) \o <<"y">>,
               <<"1">> \o LongHost(40) }

\* normalized site URLs, and the URL of a page of site a.io
NameInputs ==
    {scheme \o host : scheme \in {HttpPrefix, HttpsPrefix}, host \in NameHosts}
        \cup {PageP}

InitName ==
    /\ \E u1 \in NameInputs, u2 \in NameInputs :
          cn = [pc |-> "call", urls |-> <<u1, u2>>, raised |-> <<>>, names |-> <<>>]
    /\ store = InitStore
    /\ req = [r \in Requests |-> IdleRequest]
    /\ swept = NoSweep
    /\ lk = IdleLinks
    /\ ck = IdleChunk
    /\ pv = IdlePreview

\* get_collection_name runs on each of the two URLs: urlparse raises, or the
\* name is returned.
NameCall ==
    /\ cn.pc = "call"
    /\ cn' = [cn EXCEPT !.pc = "done",
                        !.raised = [i \in 1..2 |-> UrlparseRaises(cn.urls[i])],
                        !.names = [i \in 1..2 |->
                                      IF UrlparseRaises(cn.urls[i]) THEN <<>>
                                      ELSE get_collection_name(cn.urls[i])]]
    /\ UNCHANGED <<store, req, swept, lk, ck, pv>>

NextName == NameCall

SpecName == InitName /\ [][NextName]_vars

(***************************************************************************)
(* Specification of the preview of one hit on bounded inputs.              *)
(***************************************************************************)
PreviewAlphabet == {"a", ".", " "}

\* contents of 0, 1 and 600 characters and of about 300 characters; the
\* characters after the 300th are those of tail
PreviewInputs ==
    {[i \in 1..n |-> IF i <= PreviewLen THEN head ELSE tail] :
        n \in {0, 1, 2 * PreviewLen}
                 \cup ((PreviewLen - MaxMargin)..(PreviewLen + MaxMargin)),
        head \in PreviewAlphabet, tail \in PreviewAlphabet}

InitPreview ==
    /\ \E content \in PreviewInputs :
          pv = [pc |-> "call",
                obj |-> [id |-> <<0, 3>>, content |-> content, url |-> SeedA,
                         page_title |-> <<>>],
                result |-> <<>>]
    /\ store = InitStore
    /\ req = [r \in Requests |-> IdleRequest]
    /\ swept = NoSweep
    /\ lk = IdleLinks
    /\ ck = IdleChunk
    /\ cn = IdleName

\* search_content builds the SearchResult of one hit.
PreviewCall ==
    /\ pv.pc = "call"
    /\ pv' = [pv EXCEPT !.pc = "done", !.result = SearchResult(pv.obj)]
    /\ UNCHANGED <<store, req, swept, lk, ck, cn>>

NextPreview == PreviewCall

SpecPreview == InitPreview /\ [][NextPreview]_vars

(***************************************************************************)
(* Properties.                                                             *)
(***************************************************************************)
Has(steps, step) == step \in Range(steps)
Pos(steps, step) == IF Has(steps, step) THEN Min({i \in DOMAIN steps : steps[i] = step}) ELSE 0
Times(steps, step) == Cardinality({i \in DOMAIN steps : steps[i] = step})

SiteCollections == CollectionNames \ {OtherCollection}

\* scheme, host and port of a URL (scheme and host compare without case)
Origin(url) == <<lower(UrlScheme(url)), lower(UrlNetloc(url))>>

\* the chunks of a fetched page that are long enough to be indexed
LongChunks(html_content) ==
    LET chunks == chunk_text(get_text(clean_html(html_content)), DefaultMaxTokens)
    IN  {k \in 1..Len(chunks) : Len(strip(chunks[k])) > 50}

ChunkAt(html_content, k) ==
    chunk_text(get_text(clean_html(html_content)), DefaultMaxTokens)[k]

\* C1: a search request whose query or website is empty is answered with the
\* client error 400, not with the server error 500, and no discovery, index
\* rebuild or query step runs for it.
C1_ValidationIsClientError ==
    \A r \in Requests :
        (req[r].pc = "done" /\ InvalidInput(req[r].website, req[r].query))
            => /\ req[r].response.status = 400
               /\ req[r].steps = <<>>
               /\ req[r].submitted = <<>>

\* C2: get_website_links returns at most max_pages distinct URLs, for every
\* max_pages >= 1, and the seed URL is one of them.
C2_AtMostMaxPagesWithSeed ==
    lk.pc = "done"
        => /\ Cardinality(lk.result) <= lk.max_pages
           /\ lk.base_url \in lk.result

\* C3: every URL get_website_links returns is the seed or a URL of the seed's
\* origin (an href to another host, to a host that only has the seed as a
\* textual prefix, or a protocol-relative href is never returned); a seed page
\* with two same-origin links and one external link gives the seed plus the
\* two same-origin links.
C3_SameOriginOnly ==
    lk.pc = "done"
        => /\ \A url \in lk.result :
                 url = lk.base_url \/ Origin(url) = Origin(lk.base_url)
           /\ ( /\ lk.content = SeedPage(<< <<"/", "x">>, <<"/", "y">>,
                        <<"h", "t", "t", "p", "s", ":", "/", "/", "b", ".", "i", "o", "/">> >>)
                /\ ~lk.failed )
                 => lk.result = {SeedA, SeedA \o <<"/", "x">>, SeedA \o <<"/", "y">>}

\* C4 (as amended): no object is submitted before the rebuild's delete and
\* create steps; and when the deletion attempt succeeded, then from the create
\* step until population starts the collection holds none of the objects it
\* held before the rebuild.
C4_DeletedCollectionHoldsNoEarlierObject ==
    \A r \in Requests :
        /\ req[r].pc \in {"idle", "discover", "rebuild", "fetch"} => req[r].submitted = <<>>
        /\ (req[r].pc = "fetch" /\ ~req[r].delete_raised)
              => store[req[r].collection_name].objects \cap req[r].before = {}

\* C4 (as claimed): whatever the outcome of the swallowed deletion attempt,
\* when population starts the collection holds no object left by an earlier
\* rebuild.
C4_NoEarlierObjectAtPopulation ==
    \A r \in Requests :
        req[r].pc = "fetch"
            => store[req[r].collection_name].objects \cap req[r].before = {}

\* A rebuild whose deletion succeeded is about to populate the collection,
\* which held objects of an earlier rebuild before.
C4_Witness ==
    \E r \in Requests :
        /\ req[r].pc = "fetch" /\ req[r].pending = {}
        /\ ~req[r].delete_raised
        /\ req[r].before # {}
        /\ store[req[r].collection_name].exists

\* C5: a creation failure that reports that the collection already exists lets
\* the rebuild go on (the fetches are started); any other creation failure
\* aborts the rebuild before a page is fetched or an object is submitted, and
\* the request ends in a server error.
C5_CreateFailureHandling ==
    \A r \in Requests :
        LET created == req[r].created
            exists == contains(created.message, AlreadyExists)
        IN  /\ (created.raised /\ exists)
                  => /\ req[r].pc \in {"fetch", "done"}
                     /\ Has(req[r].steps, "gather")
                     /\ req[r].pc = "fetch" => req[r].response = NoResponse
            /\ (created.raised /\ ~exists)
                  => /\ req[r].pc = "done"
                     /\ req[r].response.status = 500
                     /\ req[r].response.detail = created.message
                     /\ ~Has(req[r].steps, "gather")
                     /\ ~Has(req[r].steps, "populate")
                     /\ req[r].fetches = <<>> /\ req[r].pending = {}
                     /\ req[r].submitted = <<>>

\* One request went on after "already exists" and was answered with results;
\* another was aborted by a different creation failure.
C5_Witness ==
    \E r1, r2 \in Requests :
        /\ req[r1].created.raised
        /\ contains(req[r1].created.message, AlreadyExists)
        /\ req[r1].pc = "done" /\ req[r1].response.status = 200
        /\ Len(req[r1].submitted) > 0
        /\ req[r2].created.raised
        /\ ~contains(req[r2].created.message, AlreadyExists)

\* C6: a fetch that ends in a transport error, a timeout or a non-200 status
\* gives the URL with empty content; in a rebuild such a page adds no object
\* and does not abort the rebuild, the chunks of the other pages are still
\* submitted, and the URL is fetched once.
C6_FailedFetchIsSkipped ==
    /\ \A url \in {SeedA, PageP, SeedB}, outcome \in FetchOutcomes \ {"ok"} :
          fetch_url_content(url, outcome, Web(url)) = <<url, EmptyContent>>
    /\ \A r \in Requests :
          /\ \A url \in req[r].failed :
                /\ req[r].results[url] = EmptyContent
                /\ req[r].fetches[url] = 1
                /\ url \notin req[r].pending
                /\ \A i \in DOMAIN req[r].submitted : req[r].submitted[i].url # url
          /\ \A url \in DOMAIN req[r].fetches : req[r].fetches[url] = 1
          /\ (req[r].pc = "done" /\ Has(req[r].steps, "gather")
                /\ req[r].failed = Range(req[r].urls))
                => Has(req[r].steps, "rebuild_return") /\ req[r].total_chunks = 0
          /\ Has(req[r].steps, "rebuild_return")
                => \A url \in Range(req[r].urls) \ req[r].failed :
                   \A k \in LongChunks(req[r].results[url]) :
                      \E i \in DOMAIN req[r].submitted :
                         /\ req[r].submitted[i].url = url
                         /\ req[r].submitted[i].content = ChunkAt(req[r].results[url], k)

\* A rebuild in which the fetch of the first page failed returned after
\* submitting the chunk of a later page.
C6_Witness ==
    \E r \in Requests :
        /\ Has(req[r].steps, "rebuild_return")
        /\ Len(req[r].urls) = 2
        /\ req[r].urls[1] \in req[r].failed
        /\ \E i \in DOMAIN req[r].submitted : req[r].submitted[i].url = req[r].urls[2]

WordCount(chunk) == Len(split(chunk))

RECURSIVE WordsOf(_, _)
WordsOf(chunks, i) ==
    IF i > Len(chunks) THEN <<>> ELSE split(chunks[i]) \o WordsOf(chunks, i + 1)

\* C7: for every text and every max_tokens >= 1 each chunk of chunk_text holds
\* at most max_tokens words, all but the last hold exactly max_tokens, and the
\* words of the chunks in order are the words of the text; a text of 1200
\* words gives chunks of 500, 500 and 200 words for max_tokens = 500.
C7_ChunksPartitionWords ==
    ck.pc = "done"
        => /\ \A i \in 1..Len(ck.chunks) :
                 WordCount(ck.chunks[i]) >= 1 /\ WordCount(ck.chunks[i]) <= ck.max_tokens
           /\ \A i \in 1..(Len(ck.chunks) - 1) : WordCount(ck.chunks[i]) = ck.max_tokens
           /\ WordsOf(ck.chunks, 1) = split(ck.text)
           /\ (Len(split(ck.text)) = 1200 /\ ck.max_tokens = 500)
                 => [i \in 1..Len(ck.chunks) |-> WordCount(ck.chunks[i])] = <<500, 500, 200>>

\* The text of 1200 words has been cut into three chunks.
C7_Witness ==
    /\ ck.pc = "done"
    /\ Len(split(ck.text)) = 1200 /\ ck.max_tokens = 500
    /\ Len(ck.chunks) = 3

\* C8: every object ever submitted (and so every object of a site's
\* collection) has a content whose trimmed length exceeds 50; a chunk of
\* trimmed length 50 or less is not submitted and not counted in total_chunks.
C8_OnlyLongChunksSubmitted ==
    /\ \A r \in Requests :
          /\ \A i \in DOMAIN req[r].submitted :
                Len(strip(req[r].submitted[i].content)) > 50
          /\ Has(req[r].steps, "rebuild_return")
                => req[r].total_chunks =
                      Cardinality(UNION {{<<i, k>> : k \in LongChunks(req[r].results[req[r].urls[i]])}
                                            : i \in DOMAIN req[r].urls})
          /\ req[r].response.status = 200
                => req[r].response.total_chunks = req[r].total_chunks
    /\ \A name \in SiteCollections : \A obj \in store[name].objects :
          Len(strip(obj.content)) > 50

\* A request was answered after fetching the seed of a.io, whose only chunk
\* has 50 characters, and one page with a longer chunk: one chunk is counted.
C8_Witness ==
    \E r \in Requests :
        /\ req[r].response.status = 200
        /\ req[r].website = SeedA
        /\ req[r].failed = {}
        /\ Len(req[r].urls) = 2
        /\ req[r].response.total_chunks = 1

\* C9: two rebuilds of the same collection over the same URL list whose pages
\* gave the same content return the same total chunk count, whatever the first
\* left in the collection.
C9_RebuildCountIdempotent ==
    \A r1, r2 \in Requests :
        ( /\ Has(req[r1].steps, "rebuild_return")
          /\ Has(req[r2].steps, "rebuild_return")
          /\ req[r1].collection_name = req[r2].collection_name
          /\ req[r1].urls = req[r2].urls
          /\ req[r1].results = req[r2].results )
            => req[r1].total_chunks = req[r2].total_chunks

\* The second of two such rebuilds ran on the collection that still held the
\* objects of the first.
C9_Witness ==
    \E r1, r2 \in Requests :
        /\ r1 # r2
        /\ Has(req[r1].steps, "rebuild_return")
        /\ Has(req[r2].steps, "rebuild_return")
        /\ req[r1].collection_name = req[r2].collection_name
        /\ req[r1].urls = req[r2].urls
        /\ req[r1].results = req[r2].results
        /\ req[r1].total_chunks > 0
        /\ \E obj \in req[r2].before : obj.id[1] = r1

\* C10: within a request the steps run in the order discovery, rebuild and
\* population, query: the rebuild starts after discovery has returned, the
\* query after the rebuild has returned its count; after a fatal failure of
\* the rebuild no query is issued and the request ends in one server error.
C10_StepsInOrder ==
    \A r \in Requests :
        LET steps == req[r].steps
            fatal == \/ Has(steps, "rebuild_raise")
                     \/ (req[r].created.raised
                            /\ ~contains(req[r].created.message, AlreadyExists))
        IN  /\ \A i \in DOMAIN steps : Times(steps, steps[i]) = 1
            /\ Has(steps, "delete") => Pos(steps, "discover") = 1
            /\ Has(steps, "populate")
                  => /\ Pos(steps, "delete") < Pos(steps, "create")
                     /\ Pos(steps, "create") < Pos(steps, "gather")
                     /\ Pos(steps, "gather") < Pos(steps, "populate")
            /\ Has(steps, "query")
                  => /\ Has(steps, "populate")
                     /\ Pos(steps, "populate") < Pos(steps, "rebuild_return")
                     /\ Pos(steps, "rebuild_return") < Pos(steps, "query")
            /\ fatal => /\ ~Has(steps, "query")
                        /\ req[r].pc = "done"
                        /\ req[r].response.status = 500
            /\ req[r].responses = IF req[r].pc = "done" THEN 1 ELSE 0

\* One request was answered with results after its query; the rebuild of
\* another failed during population.
C10_Witness ==
    \E r1, r2 \in Requests :
        /\ Has(req[r1].steps, "query") /\ req[r1].response.status = 200
        /\ Has(req[r2].steps, "rebuild_raise") /\ Has(req[r2].steps, "populate")

\* C11: the name get_collection_name returns depends on the URL alone (two
\* calls on the same URL return the same name), and for every URL, also one
\* with an empty host, a host that starts with a digit or a host of more than
\* 50 characters, it has at most 50 characters and starts with a letter.
C11_NameBoundedAlphabetic ==
    cn.pc = "done"
        => /\ \A i \in 1..2 :
                 ~cn.raised[i]
                    => /\ Len(cn.names[i]) >= 1
                       /\ Len(cn.names[i]) <= 50
                       /\ cn.names[i][1] \in Letters
           /\ cn.urls[1] = cn.urls[2]
                 => cn.names[1] = cn.names[2] /\ cn.raised[1] = cn.raised[2]

\* The names of a URL whose host starts with a digit and of a URL whose host
\* has 51 characters have been returned; the second is cut at 50.
C11_Witness ==
    /\ cn.pc = "done"
    /\ UrlNetloc(cn.urls[1]) = <<"1", "a">>
    /\ cn.names[1] = SitePrefix \o <<"w", "e", "b", "s", "i", "t", "e", "_", "1", "a">>
    /\ Len(UrlNetloc(cn.urls[2])) = 51
    /\ Len(cn.names[2]) = 50

\* a host made of letters, digits and dots that starts with a letter and has
\* at most 42 characters
PlainHost(host) ==
    /\ Len(host) >= 1 /\ Len(host) <= MaxNameLen - Len(SitePrefix)
    /\ host[1] \in Letters
    /\ \A i \in DOMAIN host : host[i] \in Letters \cup Range(Digits) \cup {"."}

\* C12 (as amended): two normalized site URLs whose hosts differ get different
\* collection names when both hosts start with a letter, consist of letters,
\* digits and dots and have at most 42 characters; URLs with the same network
\* location get the same name.
C12_PlainHostsDifferentNames ==
    (cn.pc = "done" /\ ~cn.raised[1] /\ ~cn.raised[2])
        => LET host1 == UrlNetloc(cn.urls[1])
               host2 == UrlNetloc(cn.urls[2])
           IN  /\ (PlainHost(host1) /\ PlainHost(host2) /\ host1 # host2)
                     => cn.names[1] # cn.names[2]
               /\ host1 = host2 => cn.names[1] = cn.names[2]

\* C12 (as claimed): two normalized site URLs whose origins (scheme, host,
\* port) differ get different collection names.
C12_DifferentOriginsDifferentNames ==
    (cn.pc = "done" /\ ~cn.raised[1] /\ ~cn.raised[2]
        /\ Origin(cn.urls[1]) # Origin(cn.urls[2]))
        => cn.names[1] # cn.names[2]

\* Two names have been returned for hosts that differ in a digit only, and
\* they differ.
C12_Witness ==
    /\ cn.pc = "done"
    /\ UrlNetloc(cn.urls[1]) = <<"a", "1">>
    /\ UrlNetloc(cn.urls[2]) = <<"a", "a">>
    /\ cn.names[1] # cn.names[2]

\* the existing collections whose name starts with "Website_"
Prefixed(st) ==
    {name \in CollectionNames : st[name].exists /\ startswith(name, SitePrefix)}

\* C13: a sweep that lists the collections tries to delete every collection
\* whose name starts with "Website_", also after a deletion that failed; the
\* count it reports is the number of collections it deleted; the collections
\* whose deletion failed and those without the prefix are left as they were.
C13_SweepDeletesPrefixed ==
    [][ (swept'.calls = swept.calls + 1 /\ swept'.status = 200)
          => /\ Range(swept'.listed) = Prefixed(store)
             /\ Len(swept'.listed) = Cardinality(Prefixed(store))
             /\ Len(swept'.outcomes) = Len(swept'.listed)
             /\ swept'.deleted_count =
                    Cardinality({name \in Prefixed(store) : ~store'[name].exists})
             /\ \A i \in DOMAIN swept'.listed :
                    store'[swept'.listed[i]] =
                        IF swept'.outcomes[i] = "ok" THEN NoCollection
                        ELSE store[swept'.listed[i]]
             /\ \A name \in CollectionNames \ Prefixed(store) :
                    store'[name] = store[name] ]_vars

\* A sweep went on after a deletion that failed: it deleted the second site
\* collection, reported one deletion and left the first and the collection of
\* the other application in place.
C13_Witness ==
    /\ swept.calls = 1 /\ swept.status = 200
    /\ swept.outcomes = <<"error", "ok">>
    /\ swept.deleted_count = 1
    /\ store[swept.listed[1]].exists
    /\ ~store[swept.listed[2]].exists
    /\ store[OtherCollection] = InitStore[OtherCollection]

\* C14: when the fetch of the seed gives empty content, or opening the
\* session, parsing the page or resolving an href raises, get_website_links
\* returns the seed URL alone (the links gathered before the error are
\* dropped) and nothing is raised.  An href is reached by the loop at least
\* when fewer than max_pages anchors come before and with it.
C14_FallbackToSeed ==
    lk.pc = "done"
        => LET anchors == FindAnchors(lk.content)
               raising == {i \in DOMAIN anchors :
                              UrljoinRaises(anchors[i].href) /\ i < lk.max_pages}
           IN  (lk.failed \/ lk.content = EmptyContent \/ raising # {})
                  => lk.result = {lk.base_url}

\* The second href of a fetched seed page made urljoin raise after the first
\* had been admitted, and the seed alone was returned.
C14_Witness ==
    /\ lk.pc = "done" /\ ~lk.failed
    /\ lk.content = SeedPage(<< <<"/", "x">>, <<"/", "/", "[", "b">> >>)
    /\ lk.max_pages = 3
    /\ lk.result = {SeedA}

\* C15: the content of a result is the stored content when that has at
\* most 300 characters, and otherwise its first 300 characters followed by
\* "..." (303 characters; so for a content of 305 characters).
C15_PreviewTruncation ==
    pv.pc = "done"
        => LET content == pv.obj.content
               shown == pv.result.content
           IN  /\ Len(content) <= 300 => shown = content
               /\ Len(content) > 300
                     => /\ Len(shown) = 303
                        /\ \A i \in 1..300 : shown[i] = content[i]
                        /\ \A i \in 301..303 : shown[i] = "."
               /\ pv.result.url = pv.obj.url

\* A content of 305 characters, whose last five are spaces, has been cut to
\* 300 characters and the marker.
C15_Witness ==
    /\ pv.pc = "done"
    /\ Len(pv.obj.content) = 305
    /\ pv.obj.content[1] = "a" /\ pv.obj.content[305] = " "
    /\ Len(pv.result.content) = 303
    /\ pv.result.content[300] = "a" /\ pv.result.content[303] = "."

\* the records request r has inserted, given its locals rq
OwnRecords(r, rq) == {Stored(r, k, rq.submitted[k]) : k \in DOMAIN rq.submitted}

\* the step in which request r populates its collection, queries it and is
\* answered with results
Answered(r) ==
    req[r].pc = "fetch" /\ req'[r].pc = "done" /\ req'[r].response.status = 200

\* C16 (as amended): the total_chunks a request returns is the number of
\* records that request submitted, whatever other requests and sweeps do; its
\* query runs right after its inserts and on all of its records; when the
\* collection exists and is empty as the request starts inserting, the query
\* runs on exactly its own records, and total_chunks is the number of records
\* of the collection at that moment.
C16_CountIsOwnRecords ==
    [][ \A r \in Requests :
          Answered(r)
            => LET name == req[r].collection_name
                   own == OwnRecords(r, req'[r])
               IN  /\ req'[r].response.total_chunks = Len(req'[r].submitted)
                   /\ Cardinality(own) = Len(req'[r].submitted)
                   /\ own \subseteq store'[name].objects
                   /\ store'[name].objects \ own = store[name].objects
                   /\ store[name] = EmptyCollection
                         => /\ store'[name].objects = own
                            /\ req'[r].response.total_chunks =
                                  Cardinality(store'[name].objects)
                   /\ Cardinality(store'[name].objects) <= TopK
                         => req'[r].response.results =
                               {SearchResult(h) : h \in store'[name].objects} ]_vars

\* another request for the site of request r has been started, and no
\* deletion or creation attempt of any request has failed
SameSiteRace(r) ==
    /\ \E other \in Requests \ {r} :
          /\ req[other].pc # "idle"
          /\ req[other].collection_name = req[r].collection_name
    /\ \A x \in Requests : ~req[x].delete_raised /\ ~req[x].created.raised

\* C16 (as claimed): in every interleaving of requests for one site the
\* total_chunks a request returns is the number of records of the site's
\* collection at the moment the request's query runs, and these are the
\* records that request inserted.  Stated for the interleavings in which
\* every deletion and creation succeeds.
C16_CountIsCollectionSize ==
    [][ \A r \in Requests :
          (Answered(r) /\ SameSiteRace(r))
            => LET name == req[r].collection_name
               IN  /\ req'[r].response.total_chunks =
                         Cardinality(store'[name].objects)
                   /\ store'[name].objects = OwnRecords(r, req'[r]) ]_vars

\* A request was answered with the one record it inserted while another
\* request for the same site was suspended in its fetches; the collection
\* holds that record only.
C16_Witness ==
    \E r1, r2 \in Requests :
        /\ r1 # r2
        /\ req[r1].collection_name = req[r2].collection_name
        /\ req[r1].pc = "done" /\ req[r1].response.status = 200
        /\ req[r1].response.total_chunks = 1
        /\ req[r2].pc = "fetch"
        /\ store[req[r1].collection_name].objects = OwnRecords(r1, req[r1])
        /\ Cardinality(req[r1].response.results) = 1

\* C17 (as amended): the collection a request created or adopted in its
\* rebuild step exists for as long as the request is suspended in its
\* fetches, and so when it inserts and queries, unless another request for
\* the same site or a sweep has deleted it since.
C17_CollectionKeptUnlessEvicted ==
    \A r \in Requests :
        (req[r].pc = "fetch" /\ ~req[r].evicted)
            => store[req[r].collection_name].exists

\* C17 (as claimed): in every interleaving of requests and sweeps, when a
\* request inserts its records and when it issues its query, the collection
\* of its rebuild step exists and has not been deleted in between.
C17_CollectionKeptUntilQuery ==
    [][ \A r \in Requests :
          (req[r].pc = "fetch" /\ req'[r].pc = "done")
            => LET name == req[r].collection_name
               IN  /\ req'[r].submitted # <<>>
                         => store[name].exists /\ ~req[r].evicted
                   /\ Has(req'[r].steps, "query")
                         => store'[name].exists /\ ~req[r].evicted ]_vars

\* A sweep deleted the collection of a request that was suspended in its
\* fetches; a later request for the same site has created it again and is
\* about to insert.
C17_Witness ==
    \E r1, r2 \in Requests :
        /\ swept.status = 200 /\ swept.deleted_count >= 1
        /\ req[r1].collection_name = req[r2].collection_name
        /\ req[r1].pc = "fetch" /\ req[r1].evicted
        /\ req[r2].pc = "fetch" /\ ~req[r2].evicted /\ req[r2].pending = {}
        /\ ~req[r2].created.raised
        /\ store[req[r2].collection_name].exists

\* the step of a sweep that lists the collections and in which no deletion
\* fails
CleanSweep ==
    /\ swept'.calls = swept.calls + 1 /\ swept'.status = 200
    /\ \A i \in DOMAIN swept'.outcomes : swept'.outcomes[i] = "ok"

\* C18: the collection name of every search request starts with "Website_",
\* the prefix the sweep matches on, also for hosts that are cut at 50
\* characters; so a sweep in which every deletion succeeds, run while no
\* search request is under way, leaves no collection of an earlier request.
C18_SweepRemovesRequestCollections ==
    [][ /\ \A r \in Requests :
              req'[r].collection_name # <<>>
                 => startswith(req'[r].collection_name, SitePrefix)
        /\ (CleanSweep /\ \A r \in Requests : req[r].pc \in {"idle", "done"})
              => /\ \A r \in Requests :
                       req[r].collection_name # <<>>
                          => ~store'[req[r].collection_name].exists
                 /\ \A name \in CollectionNames :
                       store'[name].exists => ~startswith(name, SitePrefix)
                 /\ \A url \in NameInputs :
                       ~UrlparseRaises(url)
                          => startswith(get_collection_name(url), SitePrefix) ]_vars

\* Both requests have been answered, one after creating a collection that
\* did not exist before; a sweep then deleted the collections of both sites.
C18_Witness ==
    /\ swept.status = 200 /\ swept.outcomes = <<"ok", "ok">>
    /\ swept.deleted_count = 2
    /\ \A r \in Requests : req[r].pc = "done" /\ req[r].response.status = 200
    /\ \E r \in Requests : req[r].collection_name = get_collection_name(SeedB)
    /\ \A name \in SiteCollections : ~store[name].exists

\* request r takes a step
Steps(r) == req'[r].pc # req[r].pc \/ req'[r].pending # req[r].pending

\* C19: the collection name of a request is the one derived from its site,
\* and no step of the request, in a request that succeeds or in one that
\* fails, changes the existence or the records of a collection with another
\* name; the results of its query are records of its own collection.
C19_OnlyOwnCollectionTouched ==
    [][ \A r \in Requests :
          Steps(r)
            => /\ \A name \in CollectionNames \ {req'[r].collection_name} :
                     store'[name] = store[name]
               /\ req'[r].collection_name # <<>>
                     => req'[r].collection_name = get_collection_name(req'[r].website)
               /\ req'[r].response.results \subseteq
                     IF req'[r].collection_name = <<>> THEN {}
                     ELSE {SearchResult(h) :
                             h \in store'[req'[r].collection_name].objects}
               /\ req'[r].pc \in {"idle", "discover"} => store' = store ]_vars

\* A request for b.io has been answered after creating and filling its
\* collection, and one for a.io has failed in its rebuild; the collection of
\* the other application is as it was.
C19_Witness ==
    \E r1, r2 \in Requests :
        /\ req[r1].pc = "done" /\ req[r1].response.status = 200
        /\ req[r1].collection_name = get_collection_name(SeedB)
        /\ store[req[r1].collection_name].objects = OwnRecords(r1, req[r1])
        /\ req[r1].submitted # <<>>
        /\ req[r2].pc = "done" /\ req[r2].response.status = 500
        /\ req[r2].collection_name = get_collection_name(SeedA)
        /\ Has(req[r2].steps, "rebuild_raise")
        /\ store[OtherCollection] = InitStore[OtherCollection]
        /\ swept = NoSweep

\* C20: when every fetch ends and every call of the store and of the
\* embedding model returns or raises, a request that has been started is
\* eventually answered, with results or with an error, and it is answered
\* once; each page of a rebuild is fetched once, and a request has submitted
\* or stored a record only after every one of its page fetches has ended.
C20_EveryRequestAnswered ==
    /\ \A r \in Requests :
          (req[r].pc # "idle")
             ~> (req[r].pc = "done" /\ req[r].responses = 1
                    /\ req[r].response.status \in {200, 500})
    /\ [](\A r \in Requests :
            /\ req[r].responses <= 1
            /\ req[r].responses = 1 <=> req[r].pc = "done"
            /\ \A url \in DOMAIN req[r].fetches : req[r].fetches[url] = 1
            /\ ( \/ req[r].submitted # <<>>
                 \/ \E name \in CollectionNames :
                       \E obj \in store[name].objects : obj.id[1] = r )
                  => /\ req[r].pending = {}
                     /\ DOMAIN req[r].results = Range(req[r].urls)
                     /\ DOMAIN req[r].fetches = Range(req[r].urls))

\* A request that fetched two pages, one of them without success, has been
\* answered with results after storing a record.
C20_Witness ==
    \E r \in Requests :
        /\ req[r].pc = "done" /\ req[r].responses = 1
        /\ req[r].response.status = 200
        /\ Len(req[r].urls) = 2
        /\ req[r].failed # {}
        /\ \E obj \in store[req[r].collection_name].objects : obj.id[1] = r

====
